---- MODULE Spec2Model ----
(***************************************************************************)
(* Model of the address geocoding engine of src/main.py: clean_address,    *)
(* get_coordinates (Google Maps first, Nominatim as fallback) and          *)
(* process_csv.                                                            *)
(*                                                                         *)
(* Encoding of Python values:                                              *)
(*   - a str is a sequence of one-character strings;                       *)
(*   - a value that may be None is a sequence of length <= 1: None is <<>> *)
(*     and a present value v is <<v>> (api_key, a DataFrame cell, the      *)
(*     value returned by get_coordinates);                                 *)
(*   - country codes and exception class names are atoms (TLA+ strings).   *)
(***************************************************************************)
EXTENDS Integers, Sequences, FiniteSets, TLC

VARIABLES
    phase,        \* where the run is: "input", "cleaning", "idle", "resolved", "shown",
                  \* "uploaded", "batch", "aborted", "done"
    text,         \* normalizer runs: the string handed to clean_address
    cleaned,      \* normalizer runs: successive results of clean_address
    location,     \* get_coordinates argument (single lookup)
    country_code, \* get_coordinates / process_csv argument
    api_key,      \* get_coordinates / process_csv argument
    google,       \* what GoogleV3.geocode does if it is called in the last get_coordinates
    nominatim,    \* what Nominatim.geocode does if it is called in the last get_coordinates
    ret,          \* value returned by the last get_coordinates
    raised,       \* exception class that escaped the last get_coordinates, or NoExc
    constructed,  \* geocoder classes instantiated, in order
    calls,        \* geocode() calls made, in order
    channel,      \* st.warning / st.error / st.success messages, in order
    rows,         \* process_csv: the address column as uploaded
    df,           \* process_csv: the working DataFrame
    index,        \* process_csv: number of loop iterations completed
    progress,     \* process_csv: values passed to progress_bar.progress, in order
    status_text,  \* process_csv: values passed to status_text.text, in order
    sleeps,       \* process_csv: number of time.sleep(1) calls
    resolved      \* process_csv: get_coordinates calls made, in order

vars == <<phase, text, cleaned, location, country_code, api_key, google, nominatim,
          ret, raised, constructed, calls, channel,
          rows, df, index, progress, status_text, sleeps, resolved>>

normVars  == <<text, cleaned>>
callVars  == <<location, country_code, api_key>>
geoVars   == <<google, nominatim, ret, raised, constructed, calls, channel>>
batchVars == <<rows, df, index, progress, status_text, sleeps, resolved>>

(***************************************************************************)
(* Bounds                                                                  *)
(***************************************************************************)
MaxLen  == 4      \* longest string handed to clean_address in normalizer runs
MaxRows == 2      \* most rows in an uploaded table

(***************************************************************************)
(* Python values                                                           *)
(***************************************************************************)
None == <<>>
Some(v) == <<v>>

\* `if api_key is not None:` in place of `if api_key:`
Truthy_NotNone(v) == v # None

\* bool(v) for v : Optional[str]
Truthy(v) == v # None /\ v[1] # <<>>

Whitespace  == {" ", "\t"}
Punctuation == {",", ".", "-"}
Chars       == {"a"} \cup Whitespace \cup Punctuation

UpperAZ == <<"A","B","C","D","E","F","G","H","I","J","K","L","M",
             "N","O","P","Q","R","S","T","U","V","W","X","Y","Z">>
LowerAZ == <<"a","b","c","d","e","f","g","h","i","j","k","l","m",
             "n","o","p","q","r","s","t","u","v","w","x","y","z">>

\* str.lower()
Lower(s) ==
    [i \in 1..Len(s) |->
        IF \E k \in 1..26 : UpperAZ[k] = s[i]
        THEN LowerAZ[CHOOSE k \in 1..26 : UpperAZ[k] = s[i]]
        ELSE s[i]]

\* needle in hay
Contains(hay, needle) ==
    \E i \in 0..(Len(hay) - Len(needle)) :
        SubSeq(hay, i + 1, i + Len(needle)) = needle

RECURSIVE LStrip(_)
LStrip(s) ==
    IF s # <<>> /\ Head(s) \in Whitespace THEN LStrip(Tail(s)) ELSE s

RECURSIVE RStrip(_)
RStrip(s) ==
    IF s # <<>> /\ s[Len(s)] \in Whitespace
    THEN RStrip(SubSeq(s, 1, Len(s) - 1))
    ELSE s

\* str.strip()
Strip(s) == RStrip(LStrip(s))

\* re.sub(r'\s+', ' ', s)
RECURSIVE CollapseWhitespace(_)
CollapseWhitespace(s) ==
    IF s = <<>> THEN <<>>
    ELSE IF Head(s) \in Whitespace
         THEN <<" ">> \o CollapseWhitespace(LStrip(Tail(s)))
         ELSE <<Head(s)>> \o CollapseWhitespace(Tail(s))

\* re.sub(r'[,.-]', ' ', s)
ReplacePunctuation(s) ==
    [i \in 1..Len(s) |-> IF s[i] \in Punctuation THEN " " ELSE s[i]]

clean_address(address) ==
    Strip(ReplacePunctuation(CollapseWhitespace(address)))

\* s.replace(", ", "\n")
RECURSIVE ReplaceCommaSpace(_)
ReplaceCommaSpace(s) ==
    IF s = <<>> THEN <<>>
    ELSE IF Len(s) >= 2 /\ s[1] = "," /\ s[2] = " "
         THEN <<"\n">> \o ReplaceCommaSpace(SubSeq(s, 3, Len(s)))
         ELSE <<Head(s)>> \o ReplaceCommaSpace(Tail(s))

\* all strings over Chars of length at most n
StringsUpTo(n) == UNION {[1..k -> Chars] : k \in 0..n}

(***************************************************************************)
(* Country directory (pycountry) and the two geocoders (geopy)             *)
(***************************************************************************)
NoExc == "NoExc"

\* every exception class that can arise here derives from Exception
ExceptionSubclasses == {"GeocoderTimedOut", "GeocoderServiceError", "AttributeError"}

France       == <<"F","r","a","n","c","e">>
UnitedStates == <<"U","n","i","t","e","d"," ","S","t","a","t","e","s">>

\* the registry behind pycountry.countries, restricted to two entries
Countries == [c \in {"FR", "US"} |-> IF c = "FR" THEN France ELSE UnitedStates]

\* pycountry.countries.get(alpha_2=country_code).name: get() yields None for a
\* code that is not in the registry, and .name on None raises AttributeError
CountryName(code) ==
    IF code \in DOMAIN Countries
    THEN [exc |-> NoExc, name |-> Countries[code]]
    ELSE [exc |-> "AttributeError", name |-> <<>>]

\* country_code and country_code != 'GLOBAL'
Scoped(code) == code # "" /\ code # "GLOBAL"

\* what a geocode() call can do
Outcomes == {"match", "none", "timeout", "error"}

\* the exception a geocode() call raises, if any
GeocodeRaises(outcome) ==
    CASE outcome = "timeout" -> "GeocoderTimedOut"
      [] outcome = "error"   -> "GeocoderServiceError"
      [] OTHER               -> NoExc

\* the Location objects the two services answer with on a match
GoogleLocation ==
    [latitude |-> 48, longitude |-> 2,
     address |-> <<"P","a","r","i","s",","," ","F","r","a","n","c","e">>]
NominatimLocation ==
    [latitude |-> 49, longitude |-> 3,
     address |-> <<"P","a","r","i","s",","," ","I","d","F",","," ","F","r","a","n","c","e">>]

CommaSpace == <<",", " ">>

(***************************************************************************)
(* get_coordinates                                                         *)
(***************************************************************************)
\* the query for Google: the country name is appended unless already present
GoogleQuery(loc, country_name) ==
    IF ~Contains(Lower(loc), Lower(country_name))
    THEN loc \o CommaSpace \o country_name
    ELSE loc

\* the query for Nominatim: the country name is always appended
NominatimQuery(loc, country_name) == loc \o CommaSpace \o country_name

\* the Nominatim formatting applied to the Google address as well
GoogleResult_Formatted(result, original_location) ==
    [latitude |-> result.latitude,
     longitude |-> result.longitude,
     address |-> ReplaceCommaSpace(result.address),
     match_level |-> "GOOGLE_MATCH",
     confidence |-> "High",
     original_address |-> original_location]

GoogleResult(result, original_location) ==
    [latitude |-> result.latitude,
     longitude |-> result.longitude,
     address |-> result.address,
     match_level |-> "GOOGLE_MATCH",
     confidence |-> "High",
     original_address |-> original_location]

NominatimResult(result, original_location) ==
    [latitude |-> result.latitude,
     longitude |-> result.longitude,
     address |-> ReplaceCommaSpace(result.address),
     match_level |-> "NOMINATIM_FULL",
     confidence |-> "Medium",
     original_address |-> original_location]

\* body of the inner try: country bias, GoogleV3.geocode, return on a match.
\* exc is the exception that leaves the body, loc the value of the local
\* variable `location` when the body is left.
GoogleTry(loc, code, original_location, outcome) ==
    LET lookup == IF Scoped(code) THEN CountryName(code) ELSE [exc |-> NoExc, name |-> <<>>]
        query  == IF Scoped(code) /\ lookup.exc = NoExc
                  THEN GoogleQuery(loc, lookup.name)
                  ELSE loc
    IN  IF lookup.exc # NoExc
        THEN [exc |-> lookup.exc, loc |-> loc, calls |-> <<>>,
              returned |-> FALSE, ret |-> None]
        ELSE [exc |-> GeocodeRaises(outcome), loc |-> query,
              calls |-> <<[provider |-> "GoogleV3", query |-> query,
                           language |-> None, country_codes |-> None]>>,
              returned |-> outcome = "match",
              ret |-> IF outcome = "match"
                      THEN Some(GoogleResult(GoogleLocation, original_location))
                      ELSE None]

\* `except GeocoderTimedOut as e:` in place of `except Exception as e:`
InnerExcept_TimeoutOnly(e) ==
    [caught |-> e = "GeocoderTimedOut",
     channel |-> <<[level |-> "warning",
                    text |-> "Google Maps API error, falling back to Nominatim",
                    exc |-> e]>>]

\* except Exception as e: st.warning(...)
InnerExcept(e) ==
    [caught |-> e \in ExceptionSubclasses,
     channel |-> <<[level |-> "warning",
                    text |-> "Google Maps API error, falling back to Nominatim",
                    exc |-> e]>>]

\* Nominatim part: query construction, Nominatim.geocode, result or None
NominatimTry(loc, code, original_location, outcome) ==
    LET lookup == IF Scoped(code) THEN CountryName(code) ELSE [exc |-> NoExc, name |-> <<>>]
        search_location == IF Scoped(code) /\ lookup.exc = NoExc
                           THEN NominatimQuery(loc, lookup.name)
                           ELSE loc
    IN  IF lookup.exc # NoExc
        THEN [exc |-> lookup.exc, calls |-> <<>>, ret |-> None]
        ELSE [exc |-> GeocodeRaises(outcome),
              calls |-> <<[provider |-> "Nominatim", query |-> search_location,
                           language |-> Some("en"),
                           country_codes |-> IF code = "GLOBAL" THEN None
                                             ELSE Some(<<code>>)]>>,
              ret |-> IF outcome = "match"
                      THEN Some(NominatimResult(NominatimLocation, original_location))
                      ELSE None]

\* the second handler narrowed to the geocoders' own error class
OuterExcept_GeopyOnly(e) ==
    IF e = "GeocoderTimedOut"
    THEN [caught |-> TRUE, channel |-> <<>>]
    ELSE IF e = "GeocoderServiceError"
    THEN [caught |-> TRUE,
          channel |-> <<[level |-> "error", text |-> "Error processing address",
                         exc |-> e]>>]
    ELSE [caught |-> FALSE, channel |-> <<>>]

\* the first handler missing: a timeout is reported like any other exception
OuterExcept_TimeoutReported(e) ==
    IF e \in ExceptionSubclasses
    THEN [caught |-> TRUE,
          channel |-> <<[level |-> "error", text |-> "Error processing address",
                         exc |-> e]>>]
    ELSE [caught |-> FALSE, channel |-> <<>>]

\* except GeocoderTimedOut: return None
\* except Exception as e: st.error(...); return None
OuterExcept(e) ==
    IF e = "GeocoderTimedOut"
    THEN [caught |-> TRUE, channel |-> <<>>]
    ELSE IF e \in ExceptionSubclasses
    THEN [caught |-> TRUE,
          channel |-> <<[level |-> "error", text |-> "Error processing address",
                         exc |-> e]>>]
    ELSE [caught |-> FALSE, channel |-> <<>>]

\* how the inner try statement is left, given how its body g was left:
\* normally, through its handler, or with an exception the handler misses
InnerTry(g) ==
    IF g.exc = NoExc
    THEN [exc |-> NoExc, loc |-> g.loc, calls |-> g.calls, channel |-> <<>>,
          returned |-> g.returned, ret |-> g.ret]
    ELSE IF InnerExcept(g.exc).caught
    THEN [exc |-> NoExc, loc |-> g.loc, calls |-> g.calls,
          channel |-> InnerExcept(g.exc).channel,
          returned |-> FALSE, ret |-> None]
    ELSE [exc |-> g.exc, loc |-> g.loc, calls |-> g.calls, channel |-> <<>>,
          returned |-> FALSE, ret |-> None]

\* the `if api_key:` block: GoogleV3 is built, then tried inside the inner try
GoogleBlock(loc, code, key, original_location, outcome) ==
    IF Truthy(key)
    THEN [constructed |-> <<"GoogleV3">>,
          try |-> InnerTry(GoogleTry(loc, code, original_location, outcome))]
    ELSE [constructed |-> <<>>,
          try |-> [exc |-> NoExc, loc |-> loc, calls |-> <<>>, channel |-> <<>>,
                   returned |-> FALSE, ret |-> None]]

\* the Nominatim part added to what the Google block g left behind
WithNominatim(g, n) ==
    [exc |-> n.exc, ret |-> n.ret,
     constructed |-> g.constructed \o <<"Nominatim">>,
     calls |-> g.try.calls \o n.calls, channel |-> g.try.channel]

\* body of the outer try after the Google block g: the function is left there
\* (return on a match, or an exception), or Nominatim is tried
FallBack(g, code, original_location, outcome) ==
    IF g.try.returned \/ g.try.exc # NoExc
    THEN [exc |-> g.try.exc, ret |-> g.try.ret, constructed |-> g.constructed,
          calls |-> g.try.calls, channel |-> g.try.channel]
    ELSE WithNominatim(g, NominatimTry(g.try.loc, code, original_location, outcome))

\* how the outer try statement is left, given how its body was left.
\* raised is the exception that reaches the caller.
OuterTry(body) ==
    IF body.exc = NoExc
    THEN [ret |-> body.ret, raised |-> NoExc, constructed |-> body.constructed,
          calls |-> body.calls, channel |-> body.channel]
    ELSE IF OuterExcept(body.exc).caught
    THEN [ret |-> None, raised |-> NoExc, constructed |-> body.constructed,
          calls |-> body.calls,
          channel |-> body.channel \o OuterExcept(body.exc).channel]
    ELSE [ret |-> None, raised |-> body.exc, constructed |-> body.constructed,
          calls |-> body.calls, channel |-> body.channel]

\* the whole function; googleOutcome and nominatimOutcome say what the two
\* services do if they are called
get_coordinates(loc, code, key, googleOutcome, nominatimOutcome) ==
    OuterTry(FallBack(GoogleBlock(clean_address(loc), code, key, loc, googleOutcome),
                      code, loc, nominatimOutcome))

(***************************************************************************)
(* Single lookups: one get_coordinates call and the display of its result  *)
(***************************************************************************)
\* addresses typed into the form (non-empty: `if address:`)
Addresses ==
    { <<"a">>,
      <<"a", ",", " ", "b">>,
      <<" ", "a", "\t">>,
      <<"-">>,
      France,
      <<"a", " ", "f", "r", "a", "n", "c", "e">> }

\* GLOBAL, two codes of the registry, and one that is not in it
CountryCodes == {"GLOBAL", "FR", "US", "ZZ"}

\* no key, the empty text input, a key
ApiKeys == {None, Some(<<>>), Some(<<"k">>)}

Init ==
    /\ phase = "idle"
    /\ text = <<>> /\ cleaned = <<>>
    /\ location = <<>> /\ country_code = "GLOBAL" /\ api_key = None
    /\ google = "none" /\ nominatim = "none"
    /\ ret = None /\ raised = NoExc
    /\ constructed = <<>> /\ calls = <<>> /\ channel = <<>>
    /\ rows = <<>> /\ df = <<>> /\ index = 0
    /\ progress = <<>> /\ status_text = <<>> /\ sleeps = 0 /\ resolved = <<>>

\* result = get_coordinates(address, selected_country, api_key)
Resolve ==
    /\ phase = "idle"
    /\ \E a \in Addresses, c \in CountryCodes, k \in ApiKeys,
          go \in Outcomes, no \in Outcomes :
          \E r \in {get_coordinates(a, c, k, go, no)} :
              /\ location' = a /\ country_code' = c /\ api_key' = k
              /\ google' = go /\ nominatim' = no
              /\ ret' = r.ret /\ raised' = r.raised
              /\ constructed' = r.constructed
              /\ calls' = r.calls
              /\ channel' = r.channel
    /\ phase' = "resolved"
    /\ UNCHANGED <<normVars, batchVars>>

\* if result: st.success(...) ... else: st.error(...)
ShowResult ==
    /\ phase = "resolved"
    /\ raised = NoExc
    /\ channel' = Append(channel,
                         IF ret # None
                         THEN [level |-> "success", text |-> "Location found!", exc |-> NoExc]
                         ELSE [level |-> "error", text |-> "Could not find location",
                               exc |-> NoExc])
    /\ phase' = "shown"
    /\ UNCHANGED <<normVars, callVars, google, nominatim, ret, raised,
                   constructed, calls, batchVars>>

Next == Resolve \/ ShowResult

Spec == Init /\ [][Next]_vars

(***************************************************************************)
(* Batch runs: process_csv over an uploaded table                          *)
(***************************************************************************)
\* a cell of the address column: NaN (None), whitespace only, two addresses
Cells == {None, Some(<<" ", "\t">>), Some(<<"a">>), Some(<<"b", ",", " ", "c">>)}

Tables == UNION {[1..k -> Cells] : k \in 0..MaxRows}

\* the selectbox offers GLOBAL and the codes of the registry only
BatchCountryCodes == {"GLOBAL", "FR"}

\* the sidebar text input: empty or a key
BatchApiKeys == {Some(<<>>), Some(<<"k">>)}

\* the test without .strip()
IsBlank_NoStrip(cell) == cell = None \/ cell[1] = <<>>

\* pd.isna(cell) or str(cell).strip() == ''
IsBlank(cell) == cell = None \/ Strip(cell[1]) = <<>>

\* df.at[index, ...] = result[...]
SetResult(row, result) ==
    [row EXCEPT !.latitude = Some(result.latitude),
                !.longitude = Some(result.longitude),
                !.full_address = Some(result.address),
                !.match_level = Some(result.match_level),
                !.confidence = Some(result.confidence)]

\* time.sleep(1) indented into the `if result:` block
PacingDelay_InIf(result) == IF result # None THEN 1 ELSE 0

\* time.sleep(1) at the end of an iteration that called get_coordinates:
\* the number of delays, whatever `result` is
PacingDelay(result) == 1

InitBatch ==
    /\ phase = "uploaded"
    /\ text = <<>> /\ cleaned = <<>>
    /\ location = <<>>
    /\ country_code \in BatchCountryCodes
    /\ api_key \in BatchApiKeys
    /\ google = "none" /\ nominatim = "none"
    /\ ret = None /\ raised = NoExc
    /\ constructed = <<>> /\ calls = <<>> /\ channel = <<>>
    /\ rows \in Tables
    /\ df = <<>> /\ index = 0
    /\ progress = <<>> /\ status_text = <<>> /\ sleeps = 0 /\ resolved = <<>>

\* process_csv up to the loop: the five result columns are added, all None
ProcessCsvStart ==
    /\ phase = "uploaded"
    /\ df' = [i \in 1..Len(rows) |->
                [address |-> rows[i], latitude |-> None, longitude |-> None,
                 full_address |-> None, match_level |-> None, confidence |-> None]]
    /\ index' = 0
    /\ phase' = "batch"
    /\ UNCHANGED <<normVars, callVars, geoVars, rows, progress, status_text,
                   sleeps, resolved>>

\* one iteration of `for index, row in df.iterrows()`
LoopIteration ==
    /\ phase = "batch"
    /\ index < Len(df)
    /\ LET total_rows == Len(df)
           row == df[index + 1]
       IN  /\ status_text' = Append(status_text,
                                    [text |-> "Processing row", row |-> index + 1,
                                     total |-> total_rows])
           /\ IF IsBlank(row.address)
              THEN \* continue
                   /\ index' = index + 1
                   /\ UNCHANGED <<phase, geoVars, df, progress, sleeps, resolved>>
              ELSE \E go \in Outcomes, no \in Outcomes :
                   \E r \in {get_coordinates(row.address[1], country_code, api_key, go, no)} :
                       /\ google' = go /\ nominatim' = no
                       /\ ret' = r.ret /\ raised' = r.raised
                       /\ constructed' = constructed \o r.constructed
                       /\ calls' = calls \o r.calls
                       /\ channel' = channel \o r.channel
                       /\ resolved' = Append(resolved,
                                             [index |-> index + 1,
                                              location |-> row.address[1],
                                              ret |-> r.ret])
                       /\ IF r.raised # NoExc
                          THEN \* the exception leaves process_csv
                               /\ phase' = "aborted"
                               /\ UNCHANGED <<df, index, progress, sleeps>>
                          ELSE /\ df' = IF r.ret # None
                                        THEN [df EXCEPT ![index + 1] = SetResult(@, r.ret[1])]
                                        ELSE df
                               /\ progress' = Append(progress, <<index + 1, total_rows>>)
                               /\ sleeps' = sleeps + PacingDelay(r.ret)
                               /\ index' = index + 1
                               /\ UNCHANGED phase
    /\ UNCHANGED <<normVars, callVars, rows>>

\* after the loop: status_text.text("Processing complete!"); return df
ProcessCsvFinish ==
    /\ phase = "batch"
    /\ index = Len(df)
    /\ status_text' = Append(status_text,
                             [text |-> "Processing complete!", row |-> index,
                              total |-> Len(df)])
    /\ phase' = "done"
    /\ UNCHANGED <<normVars, callVars, geoVars, rows, df, index, progress,
                   sleeps, resolved>>

NextBatch == ProcessCsvStart \/ LoopIteration \/ ProcessCsvFinish

SpecBatch == InitBatch /\ [][NextBatch]_vars

(***************************************************************************)
(* Normalizer runs (SpecNormalize): clean_address applied repeatedly        *)
(***************************************************************************)
InitNormalize ==
    /\ phase = "input"
    /\ text \in StringsUpTo(MaxLen)
    /\ cleaned = <<>>
    /\ location = <<>> /\ country_code = "GLOBAL" /\ api_key = None
    /\ google = "none" /\ nominatim = "none"
    /\ ret = None /\ raised = NoExc
    /\ constructed = <<>> /\ calls = <<>> /\ channel = <<>>
    /\ rows = <<>> /\ df = <<>> /\ index = 0
    /\ progress = <<>> /\ status_text = <<>> /\ sleeps = 0 /\ resolved = <<>>

\* clean_address on the input
CleanFirst ==
    /\ phase = "input"
    /\ phase' = "cleaning"
    /\ cleaned' = <<clean_address(text)>>
    /\ UNCHANGED <<text, callVars, geoVars, batchVars>>

\* clean_address on the previous result
CleanAgain ==
    /\ phase = "cleaning"
    /\ Len(cleaned) < 3
    /\ cleaned' = Append(cleaned, clean_address(cleaned[Len(cleaned)]))
    /\ UNCHANGED <<phase, text, callVars, geoVars, batchVars>>

NextNormalize == CleanFirst \/ CleanAgain

SpecNormalize == InitNormalize /\ [][NextNormalize]_vars

\* C4: the normalizer is idempotent: normalizing a normalized string
\* changes nothing, normalize(normalize(x)) = normalize(x).
C4_NormalizeIdempotent ==
    Len(cleaned) >= 2 => cleaned[2] = cleaned[1]

(***************************************************************************)
(* Properties of single lookups (Spec)                                     *)
(***************************************************************************)
GoogleCalls    == {i \in DOMAIN calls : calls[i].provider = "GoogleV3"}
NominatimCalls == {i \in DOMAIN calls : calls[i].provider = "Nominatim"}

\* the Google geocode call was made and raised
GoogleRaised == GoogleCalls # {} /\ google \in {"timeout", "error"}

ValidScope == country_code = "GLOBAL" \/ country_code \in DOMAIN Countries

\* C1: a call without credentials (None or empty) never builds or queries the
\* Primary adapter; the only provider call is to the Secondary, and a result,
\* if any, has match level NOMINATIM_FULL.
C1_NoCredentialsSecondaryOnly ==
    (phase = "resolved" /\ (api_key = None \/ api_key = Some(<<>>))) =>
        /\ \A i \in DOMAIN constructed : constructed[i] # "GoogleV3"
        /\ GoogleCalls = {}
        /\ Len(calls) <= 1
        /\ (ValidScope => Len(calls) = 1)
        /\ (ret # None => ret[1].match_level = "NOMINATIM_FULL")

C1_Witness ==
    /\ phase = "resolved"
    /\ api_key = Some(<<>>)
    /\ Len(calls) = 1 /\ calls[1].provider = "Nominatim"
    /\ ret # None

\* C2: with credentials, when the Primary call raises, a warning is emitted,
\* the Primary is not queried again, the Secondary is queried next, and the
\* call returns a NOMINATIM_FULL / Medium result if the Secondary matches and
\* None if it finds nothing.
C2_PrimaryErrorFallsThrough ==
    (phase = "resolved" /\ GoogleRaised) =>
        /\ Len(channel) >= 1 /\ channel[1].level = "warning"
        /\ Cardinality(GoogleCalls) = 1
        /\ Len(calls) = 2 /\ calls[1].provider = "GoogleV3"
        /\ calls[2].provider = "Nominatim"
        /\ (nominatim = "match" =>
                /\ ret # None
                /\ ret[1].match_level = "NOMINATIM_FULL"
                /\ ret[1].confidence = "Medium")
        /\ (nominatim = "none" => ret = None)

C2_Witness ==
    /\ phase = "resolved"
    /\ google = "error" /\ GoogleCalls # {}
    /\ nominatim = "match"
    /\ ret # None /\ ret[1].confidence = "Medium"

\* C3: with credentials, when the Primary returns a match the call returns a
\* GOOGLE_MATCH / High result carrying the provider's address unchanged and
\* the Secondary is never queried; in every call the Primary is queried at
\* most once and before the Secondary.
C3_PrimaryMatchShortCircuits ==
    phase = "resolved" =>
        /\ (GoogleCalls # {} /\ google = "match" =>
                /\ ret # None
                /\ ret[1].match_level = "GOOGLE_MATCH"
                /\ ret[1].confidence = "High"
                /\ ret[1].address = GoogleLocation.address
                /\ NominatimCalls = {}
                /\ \A i \in DOMAIN constructed : constructed[i] # "Nominatim")
        /\ Cardinality(GoogleCalls) <= 1
        /\ \A i \in GoogleCalls, j \in NominatimCalls : i < j

C3_Witness ==
    /\ phase = "resolved"
    /\ GoogleCalls # {} /\ google = "match"
    /\ country_code = "US"
    /\ ret # None /\ ret[1].match_level = "GOOGLE_MATCH"

UnknownCode == country_code # "GLOBAL" /\ country_code \notin DOMAIN Countries

\* C5: a non-Global scope whose code is not in the country directory makes
\* the failure propagate to the caller of resolve: nothing is put on the
\* caller-visible channel, no provider is queried and nothing is returned.
C5_UnknownCodePropagates ==
    (phase = "resolved" /\ UnknownCode) =>
        /\ raised # NoExc
        /\ channel = <<>>
        /\ calls = <<>>

\* C5 (amended): a non-Global scope whose code is not in the country directory
\* does not propagate: no provider is queried, the failure is reported as an
\* error on the channel (after a fall-back warning when credentials are
\* present) and the call returns None.
C5_UnknownCodeAbsorbed ==
    (phase = "resolved" /\ UnknownCode) =>
        /\ raised = NoExc
        /\ ret = None
        /\ calls = <<>>
        /\ Len(channel) = (IF Truthy(api_key) THEN 2 ELSE 1)
        /\ channel[Len(channel)].level = "error"
        /\ (Truthy(api_key) => channel[1].level = "warning")

C5_Witness ==
    /\ phase = "resolved"
    /\ country_code = "ZZ"
    /\ Truthy(api_key)
    /\ Len(channel) = 2
    /\ ret = None

\* C8: the query handed to the Secondary is the normalized address followed,
\* for a non-Global scope, by ", " and the country name exactly once, and the
\* normalized address alone for Global scope, whether or not the Primary was
\* tried first.
C8_SecondaryQuery ==
    (phase = "resolved" /\ ValidScope) =>
        \A i \in NominatimCalls :
            calls[i].query =
                IF country_code = "GLOBAL"
                THEN clean_address(location)
                ELSE clean_address(location) \o <<",", " ">> \o Countries[country_code]

\* C9: for a valid scope every provider failure is absorbed: the call returns
\* a result or None and raises nothing; a Secondary timeout gives None and
\* reports nothing, any other Secondary exception gives None and reports an
\* error.
C9_ProviderFailuresAbsorbed ==
    (phase = "resolved" /\ ValidScope) =>
        /\ raised = NoExc
        /\ \/ ret = None
           \/ Len(ret) = 1 /\ ret[1].match_level \in {"GOOGLE_MATCH", "NOMINATIM_FULL"}
        /\ (NominatimCalls # {} /\ nominatim = "timeout" =>
                /\ ret = None
                /\ \A i \in DOMAIN channel : channel[i].level # "error"
                /\ Len(channel) = (IF GoogleRaised THEN 1 ELSE 0))
        /\ (NominatimCalls # {} /\ nominatim = "error" =>
                /\ ret = None
                /\ Len(channel) >= 1
                /\ channel[Len(channel)].level = "error")

C9_Witness ==
    /\ phase = "resolved"
    /\ ValidScope
    /\ GoogleRaised
    /\ NominatimCalls # {} /\ nominatim = "timeout"
    /\ ret = None

(***************************************************************************)
(* Properties of batch runs (SpecBatch)                                    *)
(***************************************************************************)
\* a cell that holds at least one non-whitespace character
NonBlankCell(cell) ==
    cell # None /\ \E i \in DOMAIN cell[1] : cell[1][i] \notin Whitespace

\* rows among the first n that are not blank
NonBlankRows(n) == {i \in 1..n : NonBlankCell(rows[i])}

ResultFields(row) ==
    <<row.latitude, row.longitude, row.full_address, row.match_level, row.confidence>>
AllSet(row)   == \A k \in 1..5 : ResultFields(row)[k] # None
AllUnset(row) == \A k \in 1..5 : ResultFields(row)[k] = None

\* C6: progress is reported after every row, skipped rows included, so the
\* number of reports equals the number of rows gone through and the last
\* report of a run is totalRows / totalRows.
C6_ProgressAfterEveryRow ==
    phase \in {"batch", "done"} =>
        /\ Len(progress) = index
        /\ (phase = "done" /\ Len(df) > 0 =>
                progress[Len(progress)] = <<Len(df), Len(df)>>)

\* C7: the pacing delay is applied after every row, skipped rows included:
\* as many delays as rows gone through.
C7_DelayAfterEveryRow ==
    phase \in {"batch", "done"} => sleeps = index

\* C7 (amended): the pacing delay is applied after every row that is not
\* blank, whatever its lookup returned, and not after a skipped row: as many
\* delays as non-blank rows gone through.
C7_DelayAfterEveryNonBlankRow ==
    phase \in {"batch", "done"} => sleeps = Cardinality(NonBlankRows(index))

C7_Witness ==
    /\ phase = "done"
    /\ Len(rows) = 2
    /\ ~NonBlankCell(rows[1])
    /\ NonBlankCell(rows[2]) /\ AllUnset(df[2])
    /\ sleeps = 1

\* C10: after a batch the table has the same rows in the same order,
\* resolve was called once for each non-blank row, in row order, and for no
\* blank row, and a row has all five result fields set exactly if it is not
\* blank and its own call returned a result; otherwise all five are unset.
C10_BatchRows ==
    phase = "done" =>
        /\ Len(df) = Len(rows)
        /\ \A i \in DOMAIN df : df[i].address = rows[i]
        /\ \A k \in DOMAIN resolved :
               /\ resolved[k].index \in NonBlankRows(Len(rows))
               /\ resolved[k].location = rows[resolved[k].index][1]
        /\ \A k, l \in DOMAIN resolved : k < l => resolved[k].index < resolved[l].index
        /\ \A i \in NonBlankRows(Len(rows)) : \E k \in DOMAIN resolved : resolved[k].index = i
        /\ \A i \in DOMAIN df :
               /\ AllSet(df[i]) \/ AllUnset(df[i])
               /\ AllSet(df[i]) <=>
                      \E k \in DOMAIN resolved :
                          resolved[k].index = i /\ resolved[k].ret # None

C10_Witness ==
    /\ phase = "done"
    /\ Len(rows) = 2
    /\ rows[1] = Some(<<" ", "\t">>) /\ AllUnset(df[1])
    /\ NonBlankCell(rows[2]) /\ AllSet(df[2])
    /\ Len(resolved) = 1

====
